---- MODULE Spec2Model ----
(***************************************************************************)
(* Patch validation and scoring engine of the repair pipeline:             *)
(*   backend/agents/validation_agent.py  (ValidationAgent)                 *)
(*   backend/agents/scoring_agent.py     (ScoringAgent)                    *)
(* The session record (AgentState) is the state; ValidationAgent.run is    *)
(* followed through its batch attempt, its sequential loop (one patch per  *)
(* step) and its final bookkeeping; ScoringAgent.run is one step.          *)
(* SpecDecision follows one _validate_patch call on every input, SpecApply *)
(* one _apply_code call write by write beside a reader of the file.        *)
(*                                                                         *)
(* File contents are tokens: 0 is the content a file has when the session  *)
(* starts, k > 0 is the patched_code of the patch with patch_id k.         *)
(* Fractions are kept as scaled integers: speed_factor and fix_efficiency  *)
(* in 1/10000 (round(x, 4)), regression_penalty and total_score in 1/100   *)
(* (round(x, 2)).                                                          *)
(***************************************************************************)
EXTENDS Integers, Sequences, FiniteSets, TLC

\* ---------------------------------------------------------------- bounds
MaxFailures == 2        \* failures recorded at session start: 0..MaxFailures
NumFiles == 2           \* files patches can target
MaxPatches == 2         \* patches proposed during a session
MaxTests == 3           \* largest failed + errors a test run reports
MaxPassed == 1          \* largest passed count a test run reports
MaxScorings == 2        \* ScoringAgent.run invocations per session
MaxIteration == 2       \* iterations of a session, one validation each
ChunkCount == 2         \* write calls it takes to store one file
MaxApplies == 2         \* _apply_code calls followed on the file system

\* ------------------------------------------------- configuration constants
\* the scoring constants of config/settings.py
SCORE_BASE == 50
SCORE_PER_FIX == 10
SCORE_SPEED_FACTOR == 2
SCORE_REGRESSION_PENALTY == 5
\* CI success bonus, in points
CI_SUCCESS_SCORE == 20
\* exit codes the acceptance policy compares against
EXIT_OK == 0
EXIT_TESTS_FAILED == 1
EXIT_SYNTAX_ERROR == 2
EXIT_NO_TESTS == 5
\* value of an integer field of ValidationResult that the constructor call
\* does not pass (the record's declaration is in backend/utils/models.py)
FieldDefault == 0

Files == 1..NumFiles
ExitCodes == {EXIT_OK, EXIT_TESTS_FAILED, EXIT_SYNTAX_ERROR, EXIT_NO_TESTS}
\* exit codes the failure discovery can have recorded for the session
RecordedExitCodes == {EXIT_TESTS_FAILED, EXIT_SYNTAX_ERROR, EXIT_NO_TESTS}
RetryBudgets == {0, 1, 5}

VARIABLES
    failures,            \* state.failures: the failure_ids recorded at session start
    patches,             \* state.patches: sequence of Patch records
    disk,                \* content of each file of the repository
    validation_results,  \* state.validation_results
    fixes,               \* state.fixes
    timeline,            \* state.timeline
    pytest_exit_code,    \* state.pytest_exit_code: last recorded exit code
    iteration,           \* state.iteration
    max_retries,         \* state.max_retries
    fatal_error,         \* state.fatal_error
    ci_status,           \* state.ci_status
    scoring,             \* state.scoring
    pc,                  \* position inside ValidationAgent.run
    baseline_failures,   \* local of run()
    results,             \* local validation_results of run()
    accepted_patches,    \* local of run(): indexes into patches
    batch,               \* local patches_by_file.values(): indexes into patches
    batch_run,           \* local of run(): the TestRunResult of the batch, or NoRun
    remaining,           \* local of run(): indexes still to be validated
    exc,                 \* exception that left a run() call of the session, or "none"
    io_failed,           \* patch_id whose write raised in the last validate call, or 0
    n_validate,          \* validate invocations so far
    n_score,             \* scoring invocations so far
    test_runs,           \* _run_tests calls made so far by the running validate call
    run_result,          \* what _run_tests returns to _validate_patch (run1), or NoRun
    fs_dir,              \* directory of the target file: path -> inode number, 0 = no entry
    fs_data,             \* chunks stored in each inode, by inode number
    ap_pc,               \* position inside _apply_code
    ap_code,             \* content token _apply_code is writing
    ap_calls,            \* _apply_code calls so far
    rd_ino,              \* inode a reader of the target path has open, 0 = none
    rd_buf,              \* chunks the reader has read
    rd_done              \* the reader has reached the end of the file

vars == <<failures, patches, disk, validation_results, fixes, timeline,
          pytest_exit_code, iteration, max_retries, fatal_error, ci_status,
          scoring, pc, baseline_failures, results, accepted_patches, batch,
          batch_run, remaining, exc, io_failed, n_validate, n_score,
          test_runs, run_result, fs_dir, fs_data, ap_pc, ap_code, ap_calls, rd_ino,
          rd_buf, rd_done>>

locals == <<baseline_failures, results, accepted_patches, batch, batch_run,
            remaining, test_runs>>

\* the file-system view of one _apply_code call and the held test run of one
\* _validate_patch call: a session step is atomic on both
aside == <<run_result, fs_dir, fs_data, ap_pc, ap_code, ap_calls, rd_ino, rd_buf,
           rd_done>>

\* ------------------------------------------------------------- helpers
Max(a, b) == IF a >= b THEN a ELSE b

Indexes(s) == 1..Len(s)

\* round(n / d): Python's round(), half to even, for n >= 0 and d > 0
RoundDiv(n, d) ==
    LET q == n \div d
        r == n % d
    IN  IF 2 * r < d THEN q
        ELSE IF 2 * r > d THEN q + 1
        ELSE IF q % 2 = 0 THEN q ELSE q + 1

\* ------------------------------------------------------ records of the state
\* Patch(...) as the upstream repair process creates it: original_code is the
\* snapshot of the file when the patch is proposed
NewPatch(id, file, failure_id, original) ==
    [patch_id |-> id, file_path |-> file, failure_id |-> failure_id,
     original_code |-> original, patched_code |-> id, validated |-> FALSE]

NoReason == [kind |-> "none", n |-> 0]
Introduced(n) == [kind |-> "introduced_new_failures", n |-> n]
NoTestsFixed == [kind |-> "no_tests_fixed", n |-> 0]

\* ValidationResult(...): tests_regressed is passed by no constructor call of
\* the validation agent, so it keeps the declared default
ValidationResult(patch_id, passed, before, after, fixed, new_failures, reason) ==
    [patch_id |-> patch_id, passed |-> passed, tests_before |-> before,
     tests_after |-> after, tests_fixed |-> fixed,
     new_failures_introduced |-> new_failures,
     tests_regressed |-> FieldDefault,
     rejection_reason |-> reason, deterministic |-> TRUE]

\* TestRunResult as the engine reads it: failed + errors is only used summed
TestRuns ==
    {r \in [exit_code : ExitCodes, passed : 0..MaxPassed, fails : 0..MaxTests] :
        /\ (r.exit_code = EXIT_OK => r.fails = 0)
        /\ (r.exit_code = EXIT_NO_TESTS => r.fails = 0 /\ r.passed = 0)}

\* no test run is held
NoRun == [exit_code |-> -1, passed |-> 0, fails |-> 0]

\* ------------------------------------------------------------ _apply_code
\* a write that succeeds replaces the whole content of the file
ApplyCode(d, file_path, code) == [d EXCEPT ![file_path] = code]

\* the disk after patched_code of the first k patches of the list is written
RECURSIVE ApplyAll(_, _, _, _)
ApplyAll(d, ps, idx, k) ==
    IF k = 0 THEN d
    ELSE ApplyCode(ApplyAll(d, ps, idx, k - 1),
                   ps[idx[k]].file_path, ps[idx[k]].patched_code)

\* the disk after original_code of the first k patches of the list is written
RECURSIVE RevertAll(_, _, _, _)
RevertAll(d, ps, idx, k) ==
    IF k = 0 THEN d
    ELSE ApplyCode(RevertAll(d, ps, idx, k - 1),
                   ps[idx[k]].file_path, ps[idx[k]].original_code)

\* a rollback that writes nothing
RollbackSkipped(d, patch) == d

\* the rollback of a rejected patch
Rollback(d, patch) == ApplyCode(d, patch.file_path, patch.original_code)

\* ---------------------------------------------------- ValidationAgent.run
\* patches_by_file.values(): the first patch of every file_path, in list order
RECURSIVE PatchesByFile(_, _)
PatchesByFile(ps, i) ==
    IF i > Len(ps) THEN <<>>
    ELSE (IF \E j \in 1..(i - 1) : ps[j].file_path = ps[i].file_path
          THEN <<>> ELSE <<i>>) \o PatchesByFile(ps, i + 1)

\* every patch from the i-th on, validated or not
RemainingAll(ps, i) == [k \in 1..(Len(ps) - i + 1) |-> i + k - 1]

\* [p for p in self.state.patches if not p.validated]
RECURSIVE Remaining(_, _)
Remaining(ps, i) ==
    IF i > Len(ps) THEN <<>>
    ELSE (IF ps[i].validated THEN <<>> ELSE <<i>>) \o Remaining(ps, i + 1)

\* p.validated = True for the patches of the list
MarkValidated(ps, idx) ==
    [i \in Indexes(ps) |->
        IF \E k \in Indexes(idx) : idx[k] = i
        THEN [ps[i] EXCEPT !.validated = TRUE] ELSE ps[i]]

\* a batch that is no worse than the baseline is accepted too
BatchAcceptedNotWorse(batch_fails, baseline, exit_code) ==
    batch_fails <= baseline \/ (baseline = 0 /\ exit_code = EXIT_OK)

\* the condition under which the whole batch is accepted
BatchAccepted(batch_fails, baseline, exit_code) ==
    batch_fails < baseline \/ (baseline = 0 /\ exit_code = EXIT_OK)

\* the ValidationResult synthesized for each patch of an accepted batch
BatchResults(ps, idx, baseline, batch_fails) ==
    [k \in Indexes(idx) |->
        ValidationResult(ps[idx[k]].patch_id, TRUE, baseline, batch_fails, 1,
                         FieldDefault, NoReason)]

\* ------------------------------------------------------- _validate_patch
\* the decision with the two rejections tried before the syntax-fix acceptance
ValidatePatchRejectFirst(patch_id, tests_before, run1, previous_exit) ==
    LET tests_after_1 == run1.fails
        new_failures == Max(0, tests_after_1 - tests_before)
        tests_fixed == Max(0, tests_before - tests_after_1)
    IN  IF \/ run1.exit_code = EXIT_NO_TESTS
           \/ (tests_before = 0 /\ run1.exit_code # EXIT_TESTS_FAILED)
        THEN ValidationResult(patch_id, TRUE, tests_before, tests_after_1, 1,
                              0, NoReason)
        ELSE IF new_failures > 0
        THEN ValidationResult(patch_id, FALSE, tests_before, tests_after_1,
                              tests_fixed, new_failures, Introduced(new_failures))
        ELSE IF tests_after_1 >= tests_before /\ tests_before > 0
        THEN ValidationResult(patch_id, FALSE, tests_before, tests_after_1,
                              tests_fixed, FieldDefault, NoTestsFixed)
        ELSE IF /\ previous_exit = EXIT_SYNTAX_ERROR
                /\ run1.exit_code = EXIT_TESTS_FAILED
                /\ run1.passed > 0
        THEN ValidationResult(patch_id, TRUE, tests_before, tests_after_1,
                              run1.passed, 0, NoReason)
        ELSE ValidationResult(patch_id, TRUE, tests_before, tests_after_1,
                              tests_fixed, FieldDefault, NoReason)

\* the decision of _validate_patch once the patch is applied and the suite
\* has run: run1 is the TestRunResult, previous_exit is state.pytest_exit_code
ValidatePatch(patch_id, tests_before, run1, previous_exit) ==
    LET tests_after_1 == run1.fails
        new_failures == Max(0, tests_after_1 - tests_before)
        tests_fixed == Max(0, tests_before - tests_after_1)
    IN  IF \/ run1.exit_code = EXIT_NO_TESTS
           \/ (tests_before = 0 /\ run1.exit_code # EXIT_TESTS_FAILED)
        THEN ValidationResult(patch_id, TRUE, tests_before, tests_after_1, 1,
                              0, NoReason)
        ELSE IF /\ previous_exit = EXIT_SYNTAX_ERROR
                /\ run1.exit_code = EXIT_TESTS_FAILED
                /\ run1.passed > 0
        THEN ValidationResult(patch_id, TRUE, tests_before, tests_after_1,
                              run1.passed, 0, NoReason)
        ELSE IF new_failures > 0
        THEN ValidationResult(patch_id, FALSE, tests_before, tests_after_1,
                              tests_fixed, new_failures, Introduced(new_failures))
        ELSE IF tests_after_1 >= tests_before /\ tests_before > 0
        THEN ValidationResult(patch_id, FALSE, tests_before, tests_after_1,
                              tests_fixed, FieldDefault, NoTestsFixed)
        ELSE ValidationResult(patch_id, TRUE, tests_before, tests_after_1,
                              tests_fixed, FieldDefault, NoReason)

\* ---------------------------------------------------- _build_fix_records
\* one Fix per accepted patch whose failure_id is a recorded failure
RECURSIVE BuildFixRecords(_, _, _)
BuildFixRecords(ps, accepted, fs) ==
    IF accepted = <<>> THEN <<>>
    ELSE LET patch == ps[Head(accepted)]
         IN  (IF patch.failure_id \in fs
              THEN <<[failure_id |-> patch.failure_id,
                      patch_id |-> patch.patch_id,
                      file_path |-> patch.file_path,
                      validated |-> TRUE]>>
              ELSE <<>>) \o BuildFixRecords(ps, Tail(accepted), fs)

\* len([r for r in validation_results if r.passed])
RECURSIVE CountPassed(_)
CountPassed(rs) ==
    IF rs = <<>> THEN 0
    ELSE (IF Head(rs).passed THEN 1 ELSE 0) + CountPassed(Tail(rs))

\* the VALIDATION event appended to the timeline: its description gives the
\* number of results and the number of accepted ones; decisions is what the
\* event tells about single patches (patch, verdict, reason), which is nothing
ValidationEvent(it, rs, baseline) ==
    [iteration |-> it, event_type |-> "VALIDATION",
     description |-> <<Len(rs), CountPassed(rs)>>,
     decisions |-> <<>>,
     failures_before |-> baseline,
     failures_after |-> Max(0, baseline - CountPassed(rs))]

\* -------------------------------------------------------- ScoringAgent
\* failures with no Fix of the same failure_id
RemainingFailures(fs, fx) ==
    Cardinality({f \in fs : ~ \E k \in Indexes(fx) : fx[k].failure_id = f})

\* the rule with PARTIAL tried before the no-test-suite SUCCESS
CIStatusPartialFirst(fatal, fs, fx, last_exit) ==
    IF fatal THEN "FAILED"
    ELSE IF RemainingFailures(fs, fx) = 0 THEN "SUCCESS"
    ELSE IF fx # <<>> THEN "PARTIAL"
    ELSE "FAILED"

\* the ci_status run() settles before it computes the score
CIStatus(fatal, fs, fx, last_exit) ==
    IF fatal THEN "FAILED"
    ELSE IF RemainingFailures(fs, fx) = 0 THEN "SUCCESS"
    ELSE IF fx # <<>> /\ last_exit = EXIT_NO_TESTS THEN "SUCCESS"
    ELSE IF fx # <<>> THEN "PARTIAL"
    ELSE "FAILED"

\* sum(r.tests_regressed for r in self.state.validation_results)
RECURSIVE TotalRegressions(_)
TotalRegressions(rs) ==
    IF rs = <<>> THEN 0
    ELSE Head(rs).tests_regressed + TotalRegressions(Tail(rs))

\* len([f for f in self.state.fixes if f.validated])
RECURSIVE ActualFixes(_)
ActualFixes(fx) ==
    IF fx = <<>> THEN 0
    ELSE (IF Head(fx).validated THEN 1 ELSE 0) + ActualFixes(Tail(fx))

\* the bonus granted whatever the status
CISuccessScoreAlways(status) == CI_SUCCESS_SCORE

\* 20.0 if ci_status == SUCCESS else 0.0
CISuccessScore(status) == IF status = "SUCCESS" THEN CI_SUCCESS_SCORE ELSE 0

\* _compute_score, for max_retries # 0 (the division raises for 0)
ComputeScore(fs, fx, rs, max_iters, iters_used, status) ==
    LET total_failures == Cardinality(fs)
        actual_fixes == ActualFixes(fx)
        total_regressions == TotalRegressions(rs)
        fix_score == actual_fixes * SCORE_PER_FIX
        \* speed_factor = max(0.0, (max_iters - iters_used) / max_iters)
        speed_num == Max(0, max_iters - iters_used)
        regression_penalty == total_regressions * SCORE_REGRESSION_PENALTY
        ci_success_score == CISuccessScore(status)
        \* max_iters * 100 * total, before the clamp at zero
        total_num == 100 * max_iters * (SCORE_BASE + fix_score
                                        - regression_penalty + ci_success_score)
                     + speed_num * SCORE_SPEED_FACTOR * 10 * 100
    IN  [base_score |-> SCORE_BASE,
         speed_factor |-> RoundDiv(10000 * speed_num, max_iters),
         fix_efficiency |-> IF total_failures > 0
                            THEN RoundDiv(10000 * actual_fixes, total_failures)
                            ELSE 0,
         regression_penalty |-> 100 * regression_penalty,
         ci_success_score |-> ci_success_score,
         total_score |-> IF total_num <= 0 THEN 0
                         ELSE RoundDiv(total_num, max_iters),
         iterations_used |-> iters_used,
         total_possible_fixes |-> total_failures,
         actual_fixes |-> actual_fixes,
         computation_method |-> "deterministic"]

\* the SCORING event appended to the timeline
ScoringEvent(it, sc) ==
    [iteration |-> it, event_type |-> "SCORING",
     description |-> <<sc.total_score>>,
     decisions |-> <<>>,
     failures_before |-> 0, failures_after |-> 0]

\* state.scoring before any score is computed
NoScoring ==
    [base_score |-> 0, speed_factor |-> 0, fix_efficiency |-> 0,
     regression_penalty |-> 0, ci_success_score |-> 0, total_score |-> 0,
     iterations_used |-> 0, total_possible_fixes |-> 0, actual_fixes |-> 0,
     computation_method |-> "none"]

\* ----------------------------------------- _apply_code on the file system
\* the path of a patched file, as directory, stem and suffix
TargetPath == [dir |-> "repo/src", stem |-> "app", suffix |-> ".py"]

\* Path.with_suffix that leaves the path as it is
WithSuffixKept(path, suffix) == path

\* Path.with_suffix
WithSuffix(path, suffix) == [path EXCEPT !.suffix = suffix]

Paths == {TargetPath, WithSuffix(TargetPath, ".tmp")}

\* content tokens a file can hold: 0 and the patched_code of each patch
Codes == 0..MaxPatches

\* a whole file holding the token code, as the chunks it is written in
Complete(code) == [k \in 1..ChunkCount |-> code]

\* shutil.move on one file system: os.rename replaces the entry of dst in one
\* step; moving a path onto itself changes nothing
Move(dir, src, dst) ==
    IF src = dst THEN dir ELSE [dir EXCEPT ![dst] = dir[src], ![src] = 0]

\* ------------------------------------------------------------------ Init
\* A session after failure discovery: the failures are recorded, no patch is
\* proposed yet, every file holds its original content.
InitWith(failure_counts, budgets) ==
    /\ \E n \in failure_counts : failures = 1..n
    /\ patches = <<>>
    /\ disk = [f \in Files |-> 0]
    /\ validation_results = <<>>
    /\ fixes = <<>>
    /\ timeline = <<>>
    /\ pytest_exit_code \in RecordedExitCodes
    /\ iteration = 1
    /\ max_retries \in budgets
    /\ fatal_error = FALSE
    /\ ci_status = "PENDING"
    /\ scoring = NoScoring
    /\ pc = "idle"
    /\ baseline_failures = 0
    /\ results = <<>>
    /\ accepted_patches = <<>>
    /\ batch = <<>>
    /\ batch_run = NoRun
    /\ remaining = <<>>
    /\ exc = "none"
    /\ io_failed = 0
    /\ n_validate = 0
    /\ n_score = 0
    /\ test_runs = 0
    /\ run_result = NoRun
    /\ fs_dir = [p \in Paths |-> IF p = TargetPath THEN 1 ELSE 0]
    /\ fs_data = <<Complete(0)>>
    /\ ap_pc = "idle"
    /\ ap_code = 0
    /\ ap_calls = 0
    /\ rd_ino = 0
    /\ rd_buf = <<>>
    /\ rd_done = FALSE

Init == InitWith(0..MaxFailures, RetryBudgets)

\* ---------------------------------------------------- the environment
\* The repair loop is running: no agent is inside run(), no exception has
\* ended the session, no fatal error is recorded and the score is not computed
\* yet (scoring is the last stage of a session).
Repairing ==
    /\ pc = "idle"
    /\ exc = "none"
    /\ ~fatal_error
    /\ n_score = 0

\* the upstream repair process appends a patch to state.patches
Propose ==
    /\ Repairing
    /\ Len(patches) < MaxPatches
    /\ \E file \in Files, failure_id \in 1..Max(Cardinality(failures), 1) :
          patches' = Append(patches,
                            NewPatch(Len(patches) + 1, file, failure_id, disk[file]))
    /\ UNCHANGED <<aside, failures, disk, validation_results, fixes, timeline,
                   pytest_exit_code, iteration, max_retries, fatal_error,
                   ci_status, scoring, pc, locals, exc, io_failed,
                   n_validate, n_score>>

\* the orchestrator starts the next iteration, after the validation of the
\* current one
NextIteration ==
    /\ Repairing
    /\ n_validate = iteration
    /\ iteration < MaxIteration
    /\ iteration' = iteration + 1
    /\ UNCHANGED <<aside, failures, patches, disk, validation_results, fixes, timeline,
                   pytest_exit_code, max_retries, fatal_error, ci_status,
                   scoring, pc, locals, exc, io_failed, n_validate, n_score>>

\* a session-fatal condition is recorded
FatalError ==
    /\ Repairing
    /\ fatal_error' = TRUE
    /\ UNCHANGED <<aside, failures, patches, disk, validation_results, fixes, timeline,
                   pytest_exit_code, iteration, max_retries, ci_status,
                   scoring, pc, locals, exc, io_failed, n_validate, n_score>>

\* --------------------------------------------- ValidationAgent.run, by step
\* run() up to the batch attempt: baseline, empty locals, patches_by_file
ValidateStart ==
    /\ Repairing
    /\ n_validate < iteration
    /\ n_validate' = n_validate + 1
    /\ baseline_failures' = Cardinality(failures)
    /\ results' = <<>>
    /\ accepted_patches' = <<>>
    /\ batch' = PatchesByFile(patches, 1)
    /\ batch_run' = NoRun
    /\ test_runs' = 0
    /\ IF Len(batch') > 1
       THEN pc' = "batch" /\ remaining' = <<>>
       ELSE pc' = "sequential" /\ remaining' = Remaining(patches, 1)
    /\ exc' = "none"
    /\ io_failed' = 0
    /\ UNCHANGED <<aside, failures, patches, disk, validation_results, fixes, timeline,
                   pytest_exit_code, iteration, max_retries, fatal_error,
                   ci_status, scoring, n_score>>

\* an exception leaves run(): the locals are gone, the state keeps what was
\* assigned so far
Raise(kind, patch_id) ==
    /\ pc' = "idle"
    /\ exc' = kind
    /\ io_failed' = patch_id
    /\ baseline_failures' = 0
    /\ results' = <<>>
    /\ accepted_patches' = <<>>
    /\ batch' = <<>>
    /\ batch_run' = NoRun
    /\ remaining' = <<>>
    /\ test_runs' = 0

\* the k-th write of "Apply all" raises
BatchApplyRaises ==
    /\ pc = "batch"
    /\ \E k \in Indexes(batch) :
          /\ disk' = ApplyAll(disk, patches, batch, k - 1)
          /\ Raise("OSError", patches[batch[k]].patch_id)
    /\ UNCHANGED <<aside, failures, patches, validation_results, fixes, timeline,
                   pytest_exit_code, iteration, max_retries, fatal_error,
                   ci_status, scoring, n_validate, n_score>>

\* every patch of the batch is applied and the test run raises
BatchRunRaises ==
    /\ pc = "batch"
    /\ disk' = ApplyAll(disk, patches, batch, Len(batch))
    /\ Raise("TestRunError", 0)
    /\ UNCHANGED <<aside, failures, patches, validation_results, fixes, timeline,
                   pytest_exit_code, iteration, max_retries, fatal_error,
                   ci_status, scoring, n_validate, n_score>>

\* every patch of the batch is applied and the suite runs once
BatchRun ==
    /\ pc = "batch"
    /\ disk' = ApplyAll(disk, patches, batch, Len(batch))
    /\ batch_run' \in TestRuns
    /\ test_runs' = test_runs + 1
    /\ pc' = "batch_decide"
    /\ UNCHANGED <<aside, failures, patches, validation_results, fixes, timeline,
                   pytest_exit_code, iteration, max_retries, fatal_error,
                   ci_status, scoring, baseline_failures, results,
                   accepted_patches, batch, remaining, exc, io_failed,
                   n_validate, n_score>>

\* the batch is accepted: every patch of it is validated and gets a result
BatchAccept ==
    /\ pc = "batch_decide"
    /\ BatchAccepted(batch_run.fails, baseline_failures, batch_run.exit_code)
    /\ results' = BatchResults(patches, batch, baseline_failures, batch_run.fails)
    /\ patches' = MarkValidated(patches, batch)
    /\ accepted_patches' = batch
    /\ remaining' = Remaining(patches', 1)
    /\ batch_run' = NoRun
    /\ pc' = "sequential"
    /\ UNCHANGED <<aside, failures, disk, validation_results, fixes, timeline,
                   pytest_exit_code, iteration, max_retries, fatal_error,
                   ci_status, scoring, baseline_failures, batch, exc,
                   io_failed, n_validate, n_score, test_runs>>

\* the batch is refused and every file of it is written back
BatchReject ==
    /\ pc = "batch_decide"
    /\ ~BatchAccepted(batch_run.fails, baseline_failures, batch_run.exit_code)
    /\ disk' = RevertAll(disk, patches, batch, Len(batch))
    /\ remaining' = Remaining(patches, 1)
    /\ batch_run' = NoRun
    /\ pc' = "sequential"
    /\ UNCHANGED <<aside, failures, patches, validation_results, fixes, timeline,
                   pytest_exit_code, iteration, max_retries, fatal_error,
                   ci_status, scoring, baseline_failures, results,
                   accepted_patches, batch, exc, io_failed, n_validate, n_score,
                   test_runs>>

\* the batch is refused and the k-th write of the revert loop raises
BatchRevertRaises ==
    /\ pc = "batch_decide"
    /\ ~BatchAccepted(batch_run.fails, baseline_failures, batch_run.exit_code)
    /\ \E k \in Indexes(batch) :
          /\ disk' = RevertAll(disk, patches, batch, k - 1)
          /\ Raise("OSError", patches[batch[k]].patch_id)
    /\ UNCHANGED <<aside, failures, patches, validation_results, fixes, timeline,
                   pytest_exit_code, iteration, max_retries, fatal_error,
                   ci_status, scoring, n_validate, n_score>>

\* ------------------------------------------------ the sequential fallback
\* _validate_patch cannot write the patch
SeqApplyRaises ==
    /\ pc = "sequential"
    /\ remaining # <<>>
    /\ Raise("OSError", patches[Head(remaining)].patch_id)
    /\ UNCHANGED <<aside, failures, patches, disk, validation_results, fixes, timeline,
                   pytest_exit_code, iteration, max_retries, fatal_error,
                   ci_status, scoring, n_validate, n_score>>

\* the patch is written and the test run raises
SeqRunRaises ==
    /\ pc = "sequential"
    /\ remaining # <<>>
    /\ LET patch == patches[Head(remaining)]
       IN  disk' = ApplyCode(disk, patch.file_path, patch.patched_code)
    /\ Raise("TestRunError", 0)
    /\ UNCHANGED <<aside, failures, patches, validation_results, fixes, timeline,
                   pytest_exit_code, iteration, max_retries, fatal_error,
                   ci_status, scoring, n_validate, n_score>>

\* one turn of the loop that ends with the patch accepted
SeqAccept ==
    /\ pc = "sequential"
    /\ remaining # <<>>
    /\ LET i == Head(remaining)
           patch == patches[i]
       IN  /\ \E run1 \in TestRuns :
                 LET result == ValidatePatch(patch.patch_id, baseline_failures,
                                             run1, pytest_exit_code)
                 IN  /\ result.passed
                     /\ results' = Append(results, result)
           /\ disk' = ApplyCode(disk, patch.file_path, patch.patched_code)
           /\ patches' = [patches EXCEPT ![i].validated = TRUE]
           /\ accepted_patches' = Append(accepted_patches, i)
    /\ remaining' = Tail(remaining)
    /\ test_runs' = test_runs + 1
    /\ UNCHANGED <<aside, failures, validation_results, fixes, timeline,
                   pytest_exit_code, iteration, max_retries, fatal_error,
                   ci_status, scoring, pc, baseline_failures, batch, batch_run,
                   exc, io_failed, n_validate, n_score>>

\* one turn of the loop that ends with the patch rejected and rolled back
SeqReject ==
    /\ pc = "sequential"
    /\ remaining # <<>>
    /\ LET patch == patches[Head(remaining)]
       IN  /\ \E run1 \in TestRuns :
                 LET result == ValidatePatch(patch.patch_id, baseline_failures,
                                             run1, pytest_exit_code)
                 IN  /\ ~result.passed
                     /\ results' = Append(results, result)
           /\ disk' = Rollback(ApplyCode(disk, patch.file_path, patch.patched_code),
                                patch)
    /\ remaining' = Tail(remaining)
    /\ test_runs' = test_runs + 1
    /\ UNCHANGED <<aside, failures, patches, validation_results, fixes, timeline,
                   pytest_exit_code, iteration, max_retries, fatal_error,
                   ci_status, scoring, pc, baseline_failures, accepted_patches,
                   batch, batch_run, exc, io_failed, n_validate, n_score>>

\* the patch is rejected and the rollback write raises
SeqRollbackRaises ==
    /\ pc = "sequential"
    /\ remaining # <<>>
    /\ LET patch == patches[Head(remaining)]
       IN  /\ \E run1 \in TestRuns :
                 ~ValidatePatch(patch.patch_id, baseline_failures, run1,
                                pytest_exit_code).passed
           /\ disk' = ApplyCode(disk, patch.file_path, patch.patched_code)
           /\ Raise("OSError", patch.patch_id)
    /\ UNCHANGED <<aside, failures, patches, validation_results, fixes, timeline,
                   pytest_exit_code, iteration, max_retries, fatal_error,
                   ci_status, scoring, n_validate, n_score>>

\* after the loop: the results replace state.validation_results, the fixes of
\* the accepted patches are appended, the VALIDATION event is logged
ValidateFinish ==
    /\ pc = "sequential"
    /\ remaining = <<>>
    /\ validation_results' = results
    /\ fixes' = fixes \o BuildFixRecords(patches, accepted_patches, failures)
    /\ timeline' = Append(timeline,
                          ValidationEvent(iteration, results, baseline_failures))
    /\ pc' = "idle"
    /\ baseline_failures' = 0
    /\ results' = <<>>
    /\ accepted_patches' = <<>>
    /\ batch' = <<>>
    /\ test_runs' = 0
    /\ UNCHANGED <<aside, failures, patches, disk, pytest_exit_code, iteration,
                   max_retries, fatal_error, ci_status, scoring, batch_run,
                   remaining, exc, io_failed, n_validate, n_score>>

\* ------------------------------------------------------ ScoringAgent.run
\* the score computed from the ci_status found in the state, before it is
\* settled
ScoreStaleStatus ==
    /\ pc = "idle"
    /\ n_score < MaxScorings
    /\ max_retries # 0
    /\ n_score' = n_score + 1
    /\ ci_status' = CIStatus(fatal_error, failures, fixes, pytest_exit_code)
    /\ scoring' = ComputeScore(failures, fixes, validation_results,
                               max_retries, iteration, ci_status)
    /\ timeline' = Append(timeline, ScoringEvent(iteration, scoring'))
    /\ UNCHANGED <<aside, failures, patches, disk, validation_results, fixes,
                   pytest_exit_code, iteration, max_retries, fatal_error, pc,
                   locals, exc, io_failed, n_validate>>

\* ci_status is settled, the score computed and stored, the event logged
Score ==
    /\ pc = "idle"
    /\ n_score < MaxScorings
    /\ max_retries # 0
    /\ n_score' = n_score + 1
    /\ ci_status' = CIStatus(fatal_error, failures, fixes, pytest_exit_code)
    /\ scoring' = ComputeScore(failures, fixes, validation_results,
                               max_retries, iteration, ci_status')
    /\ timeline' = Append(timeline, ScoringEvent(iteration, scoring'))
    /\ UNCHANGED <<aside, failures, patches, disk, validation_results, fixes,
                   pytest_exit_code, iteration, max_retries, fatal_error, pc,
                   locals, exc, io_failed, n_validate>>

\* max_retries is 0: ci_status is settled, then the division in
\* _compute_score raises and nothing else is written
ScoreRaises ==
    /\ pc = "idle"
    /\ n_score < MaxScorings
    /\ max_retries = 0
    /\ n_score' = n_score + 1
    /\ ci_status' = CIStatus(fatal_error, failures, fixes, pytest_exit_code)
    /\ exc' = "ZeroDivisionError"
    /\ UNCHANGED <<aside, failures, patches, disk, validation_results, fixes, timeline,
                   pytest_exit_code, iteration, max_retries, fatal_error,
                   scoring, pc, locals, io_failed, n_validate>>

Next ==
    \/ Propose
    \/ NextIteration
    \/ FatalError
    \/ ValidateStart
    \/ BatchApplyRaises
    \/ BatchRun
    \/ BatchRunRaises
    \/ BatchAccept
    \/ BatchReject
    \/ BatchRevertRaises
    \/ SeqApplyRaises
    \/ SeqRunRaises
    \/ SeqAccept
    \/ SeqReject
    \/ SeqRollbackRaises
    \/ ValidateFinish
    \/ Score
    \/ ScoreRaises

Spec == Init /\ [][Next]_vars

\* sessions with one or five recorded failures and a retry budget of 0 or 5
InitScenario == InitWith({1, 5}, {0, 5})

SpecScenario == InitScenario /\ [][Next]_vars

\* ------------------------------------------ _validate_patch on every input
\* One call of _validate_patch followed from the return of _run_tests, for
\* every baseline, every TestRunResult and every recorded exit code.
\* the patch is applied and _run_tests returns run1
RunTests ==
    /\ pc = "idle"
    /\ run_result = NoRun
    /\ baseline_failures' = Cardinality(failures)
    /\ run_result' \in TestRuns
    /\ pc' = "validate_patch"
    /\ UNCHANGED <<failures, patches, disk, validation_results, fixes, timeline,
                   pytest_exit_code, iteration, max_retries, fatal_error,
                   ci_status, scoring, results, accepted_patches, batch,
                   batch_run, remaining, test_runs, exc, io_failed, n_validate,
                   n_score, fs_dir, fs_data, ap_pc, ap_code, ap_calls, rd_ino,
                   rd_buf, rd_done>>

\* _validate_patch returns its ValidationResult, which run() appends
Decide ==
    /\ pc = "validate_patch"
    /\ results' = Append(results, ValidatePatch(1, baseline_failures, run_result,
                                                pytest_exit_code))
    /\ pc' = "decided"
    /\ UNCHANGED <<failures, patches, disk, validation_results, fixes, timeline,
                   pytest_exit_code, iteration, max_retries, fatal_error,
                   ci_status, scoring, baseline_failures, accepted_patches,
                   batch, batch_run, remaining, test_runs, exc, io_failed,
                   n_validate, n_score, aside>>

NextDecision == RunTests \/ Decide

SpecDecision == Init /\ [][NextDecision]_vars

\* ------------------------------------- _apply_code, one write call at a time
\* On the file system a file is an inode holding chunks, and a directory maps
\* paths to inodes. Opening a path for writing truncates the inode it names
\* or creates an empty one; a process that has opened a path keeps reading the
\* inode it opened, whatever the path names later.
session == <<failures, patches, disk, validation_results, fixes, timeline,
             pytest_exit_code, iteration, max_retries, fatal_error, ci_status,
             scoring, pc, locals, exc, io_failed, n_validate, n_score>>

\* tmp = path.with_suffix(".tmp")
TmpPath == WithSuffix(TargetPath, ".tmp")

\* tmp.write_text opens tmp for writing
ApplyOpen ==
    /\ ap_pc = "idle"
    /\ ap_calls < MaxApplies
    /\ ap_calls' = ap_calls + 1
    /\ ap_code' \in Codes
    /\ IF fs_dir[TmpPath] # 0
       THEN /\ fs_data' = [fs_data EXCEPT ![fs_dir[TmpPath]] = <<>>]
            /\ UNCHANGED fs_dir
       ELSE /\ fs_data' = Append(fs_data, <<>>)
            /\ fs_dir' = [fs_dir EXCEPT ![TmpPath] = Len(fs_data) + 1]
    /\ ap_pc' = "writing"
    /\ UNCHANGED <<session, run_result, rd_ino, rd_buf, rd_done>>

\* tmp.write_text stores the next chunk
ApplyWrite ==
    /\ ap_pc = "writing"
    /\ Len(fs_data[fs_dir[TmpPath]]) < ChunkCount
    /\ fs_data' = [fs_data EXCEPT ![fs_dir[TmpPath]] = Append(@, ap_code)]
    /\ UNCHANGED <<session, run_result, fs_dir, ap_pc, ap_code, ap_calls, rd_ino,
                   rd_buf, rd_done>>

\* tmp.write_text raises before the file is complete: tmp stays as it is
ApplyWriteRaises ==
    /\ ap_pc = "writing"
    /\ Len(fs_data[fs_dir[TmpPath]]) < ChunkCount
    /\ ap_pc' = "idle"
    /\ UNCHANGED <<session, run_result, fs_dir, fs_data, ap_code, ap_calls, rd_ino,
                   rd_buf, rd_done>>

\* the file is complete and closed: shutil.move(str(tmp), str(path))
ApplyMove ==
    /\ ap_pc = "writing"
    /\ Len(fs_data[fs_dir[TmpPath]]) = ChunkCount
    /\ fs_dir' = Move(fs_dir, TmpPath, TargetPath)
    /\ ap_pc' = "idle"
    /\ UNCHANGED <<session, run_result, fs_data, ap_code, ap_calls, rd_ino, rd_buf,
                   rd_done>>

\* another process opens the target path for reading
ReaderOpen ==
    /\ rd_ino = 0
    /\ rd_ino' = fs_dir[TargetPath]
    /\ UNCHANGED <<session, run_result, fs_dir, fs_data, ap_pc, ap_code, ap_calls,
                   rd_buf, rd_done>>

\* the reader reads the next chunk of the file it opened
ReaderRead ==
    /\ rd_ino # 0
    /\ ~rd_done
    /\ Len(rd_buf) < Len(fs_data[rd_ino])
    /\ rd_buf' = Append(rd_buf, fs_data[rd_ino][Len(rd_buf) + 1])
    /\ UNCHANGED <<session, run_result, fs_dir, fs_data, ap_pc, ap_code, ap_calls,
                   rd_ino, rd_done>>

\* the reader finds no more data: what it read is the file it saw
ReaderEOF ==
    /\ rd_ino # 0
    /\ ~rd_done
    /\ Len(rd_buf) >= Len(fs_data[rd_ino])
    /\ rd_done' = TRUE
    /\ UNCHANGED <<session, run_result, fs_dir, fs_data, ap_pc, ap_code, ap_calls,
                   rd_ino, rd_buf>>

\* the reader closes the file
ReaderClose ==
    /\ rd_done
    /\ rd_ino' = 0
    /\ rd_buf' = <<>>
    /\ rd_done' = FALSE
    /\ UNCHANGED <<session, run_result, fs_dir, fs_data, ap_pc, ap_code, ap_calls>>

NextApply ==
    \/ ApplyOpen
    \/ ApplyWrite
    \/ ApplyWriteRaises
    \/ ApplyMove
    \/ ReaderOpen
    \/ ReaderRead
    \/ ReaderEOF
    \/ ReaderClose

\* one file of a session that is not being validated or scored
InitApply == InitWith({0}, {5}) /\ pytest_exit_code = EXIT_TESTS_FAILED

SpecApply == InitApply /\ [][NextApply]_vars

\* ======================================================== the claims
\* the sum of a sequence of numbers
RECURSIVE SumSeq(_)
SumSeq(s) == IF s = <<>> THEN 0 ELSE Head(s) + SumSeq(Tail(s))

\* the patch a result or a fix refers to
PatchById(id) == patches[CHOOSE i \in Indexes(patches) : patches[i].patch_id = id]

\* no two patches of state.patches target the same file
DistinctFiles ==
    \A i, j \in Indexes(patches) :
        i # j => patches[i].file_path # patches[j].file_path

\* the last validate call returned and nothing raised since
Returned == pc = "idle" /\ exc = "none"

\* the file of the patch of result r holds what the decision of r asks for
FileMatchesDecision(r) ==
    LET p == PatchById(r.patch_id)
    IN  disk[p.file_path] = IF r.passed THEN p.patched_code ELSE p.original_code

FailuresBefore(rs, k) ==
    LET earlier == {j \in 1..(k - 1) : rs[j].passed}
    IN  IF earlier = {} THEN rs[k].tests_before
        ELSE rs[CHOOSE j \in earlier : \A i \in earlier : i <= j].tests_after

\* C2: no accepted patch leaves more failing tests than the repository had
\* immediately before it was applied.
C2_AcceptanceNeverRegresses ==
    \A k \in Indexes(results) :
        results[k].passed => results[k].tests_after <= FailuresBefore(results, k)

\* C3: a patch whose run reports more failures than the baseline is rejected,
\* its reason carries the number of introduced failures, and its file is
\* restored; no accepted result has tests_after > tests_before.
C3_RegressionRejected ==
    /\ \A k \in Indexes(results) :
          results[k].tests_after > results[k].tests_before =>
              /\ ~results[k].passed
              /\ results[k].rejection_reason =
                     Introduced(results[k].tests_after - results[k].tests_before)
    /\ Returned =>
          \A k \in Indexes(validation_results) :
              LET r == validation_results[k]
              IN  r.tests_after > r.tests_before =>
                      /\ ~r.passed
                      /\ disk[PatchById(r.patch_id).file_path] =
                             PatchById(r.patch_id).original_code

\* sum of tests_fixed over the accepted results
RECURSIVE TestsFixedAccepted(_)
TestsFixedAccepted(rs) ==
    IF rs = <<>> THEN 0
    ELSE (IF Head(rs).passed THEN Head(rs).tests_fixed ELSE 0)
         + TestsFixedAccepted(Tail(rs))

\* C4: the tests_fixed of the accepted results never add up to more than the
\* failures recorded at session start.
C4_TestsFixedBounded ==
    TestsFixedAccepted(validation_results) <= Cardinality(failures)

\* C5: after any sequence of validate calls every Fix has exactly one passed
\* ValidationResult and exactly one validated Patch with its patch_id, and no
\* patch_id is in two Fix records.
C5_FixHasOneResultOnePatch ==
    pc = "idle" =>
        \A k \in Indexes(fixes) :
            /\ Cardinality({j \in Indexes(validation_results) :
                    /\ validation_results[j].passed
                    /\ validation_results[j].patch_id = fixes[k].patch_id}) = 1
            /\ Cardinality({j \in Indexes(patches) :
                    /\ patches[j].validated
                    /\ patches[j].patch_id = fixes[k].patch_id}) = 1
            /\ \A j \in Indexes(fixes) :
                    fixes[j].patch_id = fixes[k].patch_id => j = k

\* C6: a write that fails while a patch is applied or reverted rejects that
\* patch only: validate still returns with a failed result for it, the patch
\* is not validated and the VALIDATION event is logged.
C6_WriteFailureIsolated ==
    (pc = "idle" /\ io_failed # 0) =>
        /\ exc = "none"
        /\ \E k \in Indexes(validation_results) :
              /\ validation_results[k].patch_id = io_failed
              /\ ~validation_results[k].passed
        /\ ~PatchById(io_failed).validated
        /\ timeline # <<>>
        /\ timeline[Len(timeline)].event_type = "VALIDATION"

\* the batch step leaves the validated flag of every batch patch as it was
BatchLeavesFlags ==
    \A k \in Indexes(batch) :
        patches'[batch[k]].validated = patches[batch[k]].validated

\* when the sequential path starts, every file of the batch holds the
\* original_code of its patch
BatchFilesReverted ==
    pc' = "sequential" =>
        \A k \in Indexes(batch) :
            disk'[patches[batch[k]].file_path] = patches[batch[k]].original_code

\* C7 (as stated): whenever batchFailures >= baselineFailures, for every
\* baseline and exit code, the batch step validates no batch patch, every
\* batch file holds original_code before the sequential path starts, and every
\* batch patch is handed to the sequential path.
C7_BatchNotBetterIsReverted ==
    [][(pc = "batch_decide" /\ batch_run.fails >= baseline_failures) =>
          /\ BatchLeavesFlags
          /\ BatchFilesReverted
          /\ pc' = "sequential" =>
                \A k \in Indexes(batch) :
                    \E j \in Indexes(remaining') : remaining'[j] = batch[k]]_vars

\* C7 (amended): the same whenever batchFailures >= baselineFailures, except
\* when baselineFailures = 0 and the exit code is 0 (that batch is accepted);
\* the batch patches handed to the sequential path are those not validated
\* by an earlier call.
C7_RefusedBatchIsReverted ==
    [][(/\ pc = "batch_decide"
        /\ batch_run.fails >= baseline_failures
        /\ ~(baseline_failures = 0 /\ batch_run.exit_code = EXIT_OK)) =>
          /\ BatchLeavesFlags
          /\ BatchFilesReverted
          /\ pc' = "sequential" =>
                \A k \in Indexes(batch) :
                    ~patches[batch[k]].validated =>
                        \E j \in Indexes(remaining') : remaining'[j] = batch[k]]_vars

\* a batch over two files was refused: the sequential path is about to start
\* on both patches and both files hold their original content
C7_Witness ==
    /\ pc = "sequential"
    /\ Len(batch) > 1
    /\ results = <<>>
    /\ accepted_patches = <<>>
    /\ Len(remaining) = Len(batch)
    /\ remaining = Remaining(patches, 1)
    /\ \A k \in Indexes(batch) :
          disk[patches[batch[k]].file_path] = patches[batch[k]].original_code

\* the session of the example: five failures, one accepted patch (recorded as
\* one Fix) whose result has tests_fixed = 5, no regression, iteration 1 of 5,
\* and the score computed
ScenarioFiveFixed ==
    /\ n_score > 0
    /\ Len(fixes) = 1
    /\ scoring.computation_method = "deterministic"
    /\ Cardinality(failures) = 5
    /\ iteration = 1
    /\ max_retries = 5
    /\ Cardinality({k \in Indexes(validation_results) :
                       validation_results[k].passed}) = 1
    /\ \A k \in Indexes(validation_results) :
          /\ validation_results[k].passed => validation_results[k].tests_fixed = 5
          /\ validation_results[k].new_failures_introduced = 0

\* C8 (as stated): in that session the status is SUCCESS, fix_efficiency 1.0,
\* speed_factor 0.8 and the total BASE + PER_FIX + 0.8 * SPEED_FACTOR * 10 + 20.
C8_ScenarioScoreAsStated ==
    ScenarioFiveFixed =>
        /\ ci_status = "SUCCESS"
        /\ scoring.fix_efficiency = 10000
        /\ scoring.speed_factor = 8000
        /\ scoring.total_score =
               100 * (SCORE_BASE + SCORE_PER_FIX + 20) + 800 * SCORE_SPEED_FACTOR

\* C8 (amended): in that session fix_efficiency is 0.2 (one fix for five
\* failures) and speed_factor 0.8; the status is FAILED with a fatal error,
\* else SUCCESS when the last exit code is 5, else PARTIAL; the total is
\* BASE + PER_FIX + 0.8 * SPEED_FACTOR * 10, plus 20 only when SUCCESS.
C8_ScenarioScore ==
    ScenarioFiveFixed =>
        /\ ci_status = IF fatal_error THEN "FAILED"
                       ELSE IF pytest_exit_code = 5 THEN "SUCCESS"
                       ELSE "PARTIAL"
        /\ scoring.fix_efficiency = 2000
        /\ scoring.speed_factor = 8000
        /\ scoring.total_score =
               100 * (SCORE_BASE + SCORE_PER_FIX) + 800 * SCORE_SPEED_FACTOR
               + (IF ci_status = "SUCCESS" THEN 2000 ELSE 0)

\* the example session scored, with no fatal error and a failing last run
C8_Witness ==
    /\ ScenarioFiveFixed
    /\ ~fatal_error
    /\ pytest_exit_code = 1
    /\ ci_status = "PARTIAL"

\* the status the ordered rule gives for the current session state
StatusByRule ==
    LET unresolved == {f \in failures :
                          \A k \in Indexes(fixes) : fixes[k].failure_id # f}
    IN  CASE fatal_error -> "FAILED"
          [] ~fatal_error /\ unresolved = {} -> "SUCCESS"
          [] ~fatal_error /\ unresolved # {} /\ fixes # <<>>
               /\ pytest_exit_code = 5 -> "SUCCESS"
          [] ~fatal_error /\ unresolved # {} /\ fixes # <<>>
               /\ pytest_exit_code # 5 -> "PARTIAL"
          [] OTHER -> "FAILED"

\* max_retries * 100 * (the total without the CI bonus, before rounding)
UnroundedTotalNoBonus ==
    100 * max_retries
        * (SCORE_BASE + Len(fixes) * SCORE_PER_FIX
           - SCORE_REGRESSION_PENALTY
               * SumSeq([k \in Indexes(validation_results) |->
                            validation_results[k].tests_regressed]))
    + Max(0, max_retries - iteration) * SCORE_SPEED_FACTOR * 1000

\* C9: once scored, ci_status is the status of the ordered rule, and the
\* bonus of 20 is in the total exactly when that status is SUCCESS.
C9_StatusRuleAndBonus ==
    n_score > 0 =>
        /\ ci_status = StatusByRule
        /\ scoring.computation_method = "deterministic" =>
              LET bonus == IF ci_status = "SUCCESS" THEN 20 ELSE 0
                  exact == UnroundedTotalNoBonus + 100 * max_retries * bonus
                  got == max_retries * scoring.total_score
              IN  /\ scoring.ci_success_score = bonus
                  /\ 2 * (got - exact) <= max_retries
                  /\ 2 * (exact - got) <= max_retries

\* scored SUCCESS by the no-test-suite rule, with a failure left unresolved
C9_Witness ==
    /\ n_score > 0
    /\ scoring.computation_method = "deterministic"
    /\ ~fatal_error
    /\ fixes # <<>>
    /\ pytest_exit_code = 5
    /\ RemainingFailures(failures, fixes) > 0
    /\ ci_status = "SUCCESS"
    /\ scoring.ci_success_score = 20

\* C10: the regression penalty is SCORE_REGRESSION_PENALTY times the new
\* failures validation recorded as introduced, over all results.
C10_PenaltyCountsIntroduced ==
    (n_score > 0 /\ scoring.computation_method = "deterministic") =>
        scoring.regression_penalty =
            100 * SCORE_REGRESSION_PENALTY
                * SumSeq([k \in Indexes(validation_results) |->
                             validation_results[k].new_failures_introduced])

\* ------------------------------------------------------------------ C11
\* every patch decided by the last validate call was rejected
AllRejected ==
    /\ validation_results # <<>>
    /\ \A k \in Indexes(validation_results) : ~validation_results[k].passed

\* C11: once ScoringAgent.run was called, the session holds a Scoring record,
\* whatever max_retries and iteration are; and when every patch was rejected
\* the total of the record is the base score, with no fix bonus and no CI bonus.
C11_ScoringAlwaysProduced ==
    n_score > 0 =>
        /\ scoring.computation_method = "deterministic"
        /\ AllRejected =>
              /\ scoring.total_score = 100 * SCORE_BASE
              /\ scoring.actual_fixes = 0
              /\ scoring.ci_success_score = 0

\* ------------------------------------------------------------------ C12
\* C12: a run of ScoringAgent.run that follows another one on the same
\* session leaves the Scoring record and ci_status exactly as the first run
\* wrote them.
C12_ScoringIdempotent ==
    [][(n_score >= 1 /\ n_score' = n_score + 1)
          => (scoring' = scoring /\ ci_status' = ci_status)]_vars

\* scored twice, with a fix counted and the CI bonus granted
C12_Witness ==
    /\ n_score = 2
    /\ scoring.computation_method = "deterministic"
    /\ scoring.actual_fixes > 0
    /\ scoring.ci_success_score = CI_SUCCESS_SCORE
    /\ Len(timeline) >= 3

\* ------------------------------------------------------------------ C13
\* s is a prefix of t
IsPrefix(s, t) ==
    /\ Len(s) <= Len(t)
    /\ \A k \in Indexes(s) : t[k] = s[k]

\* C13: state.validation_results is append-only: every step of the session
\* keeps each recorded ValidationResult unchanged at its position and can only
\* add results after them.
C13_ResultsAppendOnly ==
    [][IsPrefix(validation_results, validation_results')]_vars

\* ------------------------------------------------------------------ C14
\* patches whose patched_code is the content of their file while they are not
\* marked validated: applied, and neither accepted nor reverted
AppliedUndecided ==
    {i \in Indexes(patches) :
        /\ ~patches[i].validated
        /\ disk[patches[i].file_path] = patches[i].patched_code}

\* every patch of the session is on the same file: patches_by_file never had
\* two entries, so every attempt of the session was a sequential one
OnlySequentialAttempts ==
    \A i, j \in Indexes(patches) :
        patches[i].file_path = patches[j].file_path

\* C14: in the sequential path a patch that was written is accepted or
\* reverted before the next patch is tried and before validate ends, however
\* the attempt ends: between two attempts and once validate is over, no patch
\* is applied without being accepted or reverted.
C14_NoPatchLeftApplied ==
    (OnlySequentialAttempts /\ pc \in {"sequential", "idle"})
        => AppliedUndecided = {}

\* ------------------------------------------------------------------ C15
\* the whole files a reader may see
CompleteFiles == {Complete(code) : code \in Codes}

RecordsDecision(ev, r) ==
    \E d \in Indexes(ev.decisions) :
        ev.decisions[d] = [patch_id |-> r.patch_id, passed |-> r.passed,
                           reason |-> r.rejection_reason]

\* C16: after validate, the timeline holds for every patch that was decided,
\* accepted or rejected, an entry that records the decision and its reason.
C16_DecisionsOnTimeline ==
    Returned =>
        \A k \in Indexes(validation_results) :
            \E e \in Indexes(timeline) :
                RecordsDecision(timeline[e], validation_results[k])

\* ------------------------------------------------------------------ C17
\* C17: validate runs the suite twice for each patch and accepts the patch,
\* with deterministic = TRUE, only if the two runs agree: in a call that
\* tries its patches one by one, the k-th result is accepted and marked
\* deterministic only after 2 * k runs of the suite.
C17_AcceptedAfterTwoRuns ==
    (pc = "sequential" /\ OnlySequentialAttempts) =>
        \A k \in Indexes(results) :
            (results[k].passed /\ results[k].deterministic)
                => test_runs >= 2 * k

\* ------------------------------------------------------------------ C18
\* the five rules as a table: each row applies when no earlier row does;
\* suite_ran is the set of exit codes of a run that executed the suite
DecisionByRules(before, run, previous_exit, suite_ran) ==
    LET after == run.fails
        rule1 == \/ run.exit_code = EXIT_NO_TESTS
                 \/ (before = 0 /\ run.exit_code # EXIT_TESTS_FAILED)
        rule2 == /\ previous_exit = EXIT_SYNTAX_ERROR
                 /\ run.exit_code \in suite_ran
                 /\ run.passed > 0
        rule3 == after > before
        rule4 == after >= before /\ before > 0
    IN  CASE rule1 ->
               [passed |-> TRUE, tests_fixed |-> 1,
                new_failures_introduced |-> 0, rejection_reason |-> NoReason]
          [] ~rule1 /\ rule2 ->
               [passed |-> TRUE, tests_fixed |-> run.passed,
                new_failures_introduced |-> 0, rejection_reason |-> NoReason]
          [] ~rule1 /\ ~rule2 /\ rule3 ->
               [passed |-> FALSE, tests_fixed |-> 0,
                new_failures_introduced |-> after - before,
                rejection_reason |-> Introduced(after - before)]
          [] ~rule1 /\ ~rule2 /\ ~rule3 /\ rule4 ->
               [passed |-> FALSE, tests_fixed |-> 0,
                new_failures_introduced |-> 0,
                rejection_reason |-> NoTestsFixed]
          [] OTHER ->
               [passed |-> TRUE, tests_fixed |-> before - after,
                new_failures_introduced |-> 0, rejection_reason |-> NoReason]

\* the returned result is the row of the table, with the counts it was given
FollowsRules(r, suite_ran) ==
    LET row == DecisionByRules(baseline_failures, run_result, pytest_exit_code,
                               suite_ran)
    IN  /\ r.passed = row.passed
        /\ r.tests_fixed = row.tests_fixed
        /\ r.new_failures_introduced = row.new_failures_introduced
        /\ r.rejection_reason = row.rejection_reason
        /\ r.tests_before = baseline_failures
        /\ r.tests_after = run_result.fails
        /\ r.deterministic

\* C18 as stated: the decision follows the five ordered rules, the second one
\* applying to every run that executed the suite (exit code 0 or 1).
C18_DecisionRulesAsStated ==
    pc = "decided"
        => FollowsRules(results[Len(results)], {EXIT_OK, EXIT_TESTS_FAILED})

\* C18: the decision follows the five ordered rules, the second one applying
\* only to a run that ended with the tests-failed exit code (1).
C18_DecisionRules ==
    pc = "decided" => FollowsRules(results[Len(results)], {EXIT_TESTS_FAILED})

\* the second rule wins over the third: after a syntax error a run with more
\* failures than the baseline and a passed test is accepted
C18_Witness ==
    /\ pc = "decided"
    /\ pytest_exit_code = EXIT_SYNTAX_ERROR
    /\ run_result.exit_code = EXIT_TESTS_FAILED
    /\ run_result.passed > 0
    /\ baseline_failures > 0
    /\ run_result.fails > baseline_failures
    /\ results[1].passed
    /\ results[1].tests_fixed = run_result.passed

\* ------------------------------------------------------------------ C19
\* C19: no patch whose own test run ends with the syntax-error exit code is
\* accepted, whatever the baseline is, 0 included.
C19_SyntaxErrorNeverAccepted ==
    (pc = "decided" /\ run_result.exit_code = EXIT_SYNTAX_ERROR)
        => ~results[Len(results)].passed

\* ------------------------------------------------------------------ C20
\* C20: while validate runs, its baseline is the number of recorded failures
\* that have no Fix in state.fixes as validate found it (state.fixes is only
\* written when the call ends); failures fixed by an earlier call do not count.
C20_BaselineCountsUnfixed ==
    pc \in {"batch", "batch_decide", "sequential"}
        => baseline_failures = RemainingFailures(failures, fixes)

\* ------------------------------------------------------------------ C21
\* the first patch of state.patches that is not validated and targets file f
FirstUnvalidatedOn(f) ==
    {i \in Indexes(patches) :
        /\ ~patches[i].validated
        /\ patches[i].file_path = f
        /\ \A j \in 1..(i - 1) :
              patches[j].validated \/ patches[j].file_path # f}

\* C21: while the batch step runs, the batch holds patches of at least two
\* distinct files, one per file, each of them the first not-yet-validated
\* patch of its file: a patch validated before the call is not in the batch,
\* so it is neither re-applied nor given a new result.
C21_BatchGroupsUnvalidated ==
    pc \in {"batch", "batch_decide"} =>
        /\ Len(batch) >= 2
        /\ \A j, k \in Indexes(batch) :
              j # k => patches[batch[j]].file_path # patches[batch[k]].file_path
        /\ \A k \in Indexes(batch) :
              batch[k] \in FirstUnvalidatedOn(patches[batch[k]].file_path)

\* ------------------------------------------------------------------ C22
\* no earlier validate call of the session accepted a patch, so every patch
\* was unvalidated when the running call started
NothingAcceptedBefore ==
    \A e \in Indexes(timeline) :
        timeline[e].event_type = "VALIDATION" => timeline[e].description[2] = 0

\* validate returns normally in this step
ValidateReturns == pc = "sequential" /\ pc' = "idle" /\ exc' = "none"

\* C22: when validate is called with every patch unvalidated and the patches
\* on pairwise distinct files, and nothing raises, then at its return every
\* patch has exactly one result, it is validated iff that result passed, and
\* its file holds patched_code if it is validated and original_code if not,
\* whether the batch was accepted, refused or not attempted.
C22_OneResultPerPatch ==
    [][(ValidateReturns /\ NothingAcceptedBefore /\ DistinctFiles) =>
          /\ Len(validation_results') = Len(patches')
          /\ \A i \in Indexes(patches') :
                LET p == patches'[i]
                IN  /\ \E k \in Indexes(validation_results') :
                          /\ validation_results'[k].patch_id = p.patch_id
                          /\ validation_results'[k].passed = p.validated
                    /\ disk'[p.file_path] = IF p.validated THEN p.patched_code
                                            ELSE p.original_code]_vars

\* the first call of a session returned for two patches on two files: the
\* batch was refused, then one patch was accepted and the other rolled back
C22_Witness ==
    /\ Returned
    /\ n_validate = 1
    /\ Len(timeline) = 1
    /\ Len(patches) = 2
    /\ DistinctFiles
    /\ Len(validation_results) = 2
    /\ \E i, j \in Indexes(patches) :
          /\ patches[i].validated
          /\ ~patches[j].validated
          /\ disk[patches[i].file_path] = patches[i].patched_code
          /\ disk[patches[j].file_path] = patches[j].original_code

====
